---- MODULE Spec2Model ----
(***************************************************************************)
(* Model of src/server.py: BlackbirdApiClient (token cache and refresh,    *)
(* resource submission, status polling, retry and timeout policy).         *)
(*                                                                         *)
(* Time is an integer clock `now` counted in half seconds, so the 0.5 s    *)
(* buffer of bearer_token is one tick.  A JSON object is a record whose    *)
(* fields are sets of at most one value: {} when the key is absent, {v}    *)
(* when the key is bound to v.  A flat mapping (the `context` and          *)
(* `analysis` objects, a normalized result) is a function from its keys.   *)
(***************************************************************************)
EXTENDS Integers, Sequences, FiniteSets, TLC

VARIABLES
    now,        \* time.time(), in half seconds
    env,        \* BLACKBIRD_CLIENT_KEY, _SECRET_KEY, _USERNAME, _PASSWORD (lines 174-177)
    client,     \* module-level blackbird_api: "unconstructed", "ready", "config_error", "auth_error"
    auth,       \* _auth_url / _auth_payload grant type ("" before construction)
    token,      \* self.token: [token, expiration_time]
    exchanges,  \* number of httpx.post calls made by __new_token (history)
    pc,         \* per task: position of submit_and_wait_resource
    kind,       \* per task: resource_type
    max_retries, max_time, check_interval,   \* per task: the call's parameters
    tries,      \* per task: attempt number inside the backoff decorator
    resource_id,\* per task: id returned by the submission
    retries,    \* per task: local `retries`
    error,      \* per task: local `error`
    cutoff,     \* per task: local `cutoff`
    wake,       \* per task: end of the asyncio.sleep in progress
    outcome,    \* per task: value returned or exception raised by the call
    reqs,       \* per task: status codes answered to the decorated call in progress (history)
    sent,       \* per task: HTTP requests sent by the decorated call in progress (history)
    checks,     \* per task: number of _check_resource_type calls started (history)
    stub        \* per task: the answers of a stubbed status endpoint ({}: the real service)

shared == <<now, env, client, auth, token, exchanges>>
params == <<kind, max_retries, max_time, check_interval>>
locals == <<resource_id, retries, error, cutoff, wake>>
hist   == <<reqs, sent, checks>>
vars   == <<shared, pc, params, tries, locals, outcome, hist, stub>>

----------------------------------------------------------------------------
(* Bounds of the model *)

MaxClock == 3           \* the clock advances freely up to this tick
MaxRetriesArg == 2      \* max_retries is drawn from 0..MaxRetriesArg
MaxTimeArg == 1         \* max_time is drawn from 0..MaxTimeArg
MaxIntervalArg == 1     \* check_interval is drawn from 0..MaxIntervalArg

TaskIds == {1, 2}
ExpiresIn == {1, 2}     \* expires_in of 0.5 s and 1 s, in ticks
Codes == {200, 202, 404, 500, 503}

(* Program constants *)

Buffer == 1             \* 0.5 s
MaxTries == 3

----------------------------------------------------------------------------
(* JSON objects and flat mappings *)

Has(obj, k) == obj[k] # {}
Get(obj, k) == CHOOSE v \in obj[k] : TRUE
Opt(S) == {{}} \cup {{v} : v \in S}

EmptyMap == [k \in {} |-> ""]
MapsOver(Keys, v) == {[k \in D |-> v] : D \in SUBSET Keys}

\* {**a, **b}: the keys of both, b's value where both bind a key
MergeWrong(a, b) == [k \in DOMAIN a \cup DOMAIN b |-> IF k \in DOMAIN a THEN a[k] ELSE b[k]]
Merge(a, b) == [k \in DOMAIN a \cup DOMAIN b |-> IF k \in DOMAIN b THEN b[k] ELSE a[k]]

----------------------------------------------------------------------------
(* Credentials and the token: __init__, __new_token, bearer_token *)

CredInputs == [client_id : {"", "id"}, client_secret : {"", "secret"},
               username : {"", "user"}, password : {"", "pw"}]
PasswordEnv == [client_id |-> "", client_secret |-> "", username |-> "user",
                password |-> "pw"]

\* lines 50-65: the grant chosen from the constructor's arguments ("" where it raises ValueError)
AuthMode(c) ==
    IF c.username # "" /\ c.password # "" THEN "password"
    ELSE IF c.client_id # "" /\ c.client_secret # "" THEN "client_credentials"
    ELSE ""

\* the JSON answers of the token endpoint
AuthResponses == [error : Opt({"invalid_grant"}), access_token : Opt({"jwt"}),
                  expires_in : Opt(ExpiresIn)]
NoExchange == [error |-> {}, access_token |-> {}, expires_in |-> {}]

\* lines 72-78: which answers yield a Token (the error case is matched first)
NewTokenOk(r) == ~Has(r, "error") /\ Has(r, "access_token") /\ Has(r, "expires_in")

\* line 76: the Token built from an accepted answer; the n-th exchange issues the string n
NewTokenKeepExpiry(r, n, t) == [token |-> n, expiration_time |-> token.expiration_time]
NewToken(r, n, t) == [token |-> n, expiration_time |-> t + Get(r, "expires_in")]

NoToken == [token |-> 0, expiration_time |-> 0]

\* line 82: the test that makes bearer_token refresh
NeedsRefresh(tok, t) == t - Buffer > tok.expiration_time

Construct ==
    /\ client = "unconstructed"
    /\ IF AuthMode(env) = ""
       THEN /\ client' = "config_error"
            /\ UNCHANGED <<auth, token, exchanges>>
       ELSE \E r \in AuthResponses :
                /\ auth' = AuthMode(env)
                /\ exchanges' = exchanges + 1
                /\ IF NewTokenOk(r)
                   THEN client' = "ready" /\ token' = NewToken(r, exchanges + 1, now)
                   ELSE client' = "auth_error" /\ token' = token
    /\ UNCHANGED <<now, env, pc, params, tries, locals, outcome, hist, stub>>

\* the answers a bearer_token call may get: one of the token endpoint's if it refreshes
ExchangeAnswers == IF NeedsRefresh(token, now) THEN AuthResponses ELSE {NoExchange}

\* lines 80-92: bearer_token / headers; r answers the credential exchange, if one is made
HeadersOkAlways(r) == TRUE
HeadersOk(r) == ~NeedsRefresh(token, now) \/ NewTokenOk(r)
HeadersNoStore(r) ==
    /\ token' = token
    /\ exchanges' = IF NeedsRefresh(token, now) THEN exchanges + 1 ELSE exchanges
    /\ UNCHANGED <<now, env, client, auth>>
Headers(r) ==
    LET refresh == NeedsRefresh(token, now)
        tok == IF refresh /\ NewTokenOk(r) THEN NewToken(r, exchanges + 1, now) ELSE token
    IN  /\ token' = tok
        /\ exchanges' = IF refresh THEN exchanges + 1 ELSE exchanges
        /\ UNCHANGED <<now, env, client, auth>>

----------------------------------------------------------------------------
(* Responses of the resource endpoints *)

\* task 1 is a call of check_context (line 194), task 2 a call of check_vision (line 201)
KindOfContext(t) == "compass/contextChecks"
KindOf(t) == IF t = 1 THEN "compass/contextChecks" ELSE "compass/visionAnalyses"

\* the service gives every submission an id of its own
IdOf(t) == IF t = 1 THEN "r1" ELSE "r2"

Success2xx == {200, 202}

\* answers to the submission POST: a status code and a JSON body that may bind `id`
SubmitResponses(t) ==
    {[code |-> c, id |-> i] : c \in Success2xx, i \in Opt({IdOf(t)})}
    \cup {[code |-> c, id |-> {}] : c \in Codes \ Success2xx}

StatusVals == {"success", "processing", "failed", "queued"}
CtxKeys == {"verdict", "input"}
AnKeys == {"fake", "options", "input"}

\* every JSON body of a status answer, over the six keys the code looks at
AllBodies == [status : Opt(StatusVals), context : Opt(MapsOver(CtxKeys, "x")),
              input : Opt({"a"}), options : Opt({"o"}),
              analysis : Opt(MapsOver(AnKeys, "x")), error : Opt({"e1", "e2"})]
NoBody == [status |-> {}, context |-> {}, input |-> {}, options |-> {},
           analysis |-> {}, error |-> {}]

FullMap(Keys) == [k \in Keys |-> "x"]

\* the bodies an unstubbed status endpoint answers: the four documented variants and
\* the success and failed bodies that lack some of their fields
ServiceBodies ==
    {b \in AllBodies :
       /\ Has(b, "status")
       /\ b.context \subseteq {FullMap(CtxKeys)}
       /\ b.analysis \subseteq {FullMap(AnKeys)}
       /\ (Get(b, "status") # "success" =>
             ~Has(b, "context") /\ ~Has(b, "input") /\ ~Has(b, "options")
             /\ ~Has(b, "analysis"))
       /\ (Get(b, "status") # "failed" => ~Has(b, "error"))}

\* answers to the status GET: a status code and, with 200 or 202, a JSON body
ServiceResponses ==
    {[code |-> c, body |-> b] : c \in Success2xx, b \in ServiceBodies}
    \cup {[code |-> c, body |-> NoBody] : c \in Codes \ Success2xx}

CheckResponses(t) == IF stub[t] = {} THEN ServiceResponses ELSE stub[t]

\* the stub of the orchestrator-bound test: every status check is answered "processing"
Processing == [NoBody EXCEPT !.status = {"processing"}]
AlwaysProcessing == {[code |-> 200, body |-> Processing]}

----------------------------------------------------------------------------
(* Classification of responses and of status bodies *)

\* lines 104-111
SubmitClassifyAll(code) ==
    IF code \in Success2xx THEN "ok" ELSE "retryable"
SubmitClassify(code) ==
    IF code \in Success2xx THEN "ok" ELSE IF code = 500 THEN "retryable" ELSE "fatal"

\* lines 119-128
CheckClassify5xx(code) ==
    IF code \in Success2xx THEN "ok"
    ELSE IF code >= 500 THEN "retryable"
    ELSE IF 500 > code /\ code >= 400 THEN "not_found"
    ELSE "fatal"
CheckClassify4xxRetry(code) ==
    IF code \in Success2xx THEN "ok"
    ELSE IF code = 500 \/ (500 > code /\ code >= 400) THEN "retryable"
    ELSE "fatal"
CheckClassify(code) ==
    IF code \in Success2xx THEN "ok"
    ELSE IF code = 500 THEN "retryable"
    ELSE IF 500 > code /\ code >= 400 THEN "not_found"
    ELSE "fatal"

\* the backoff decorator, lines 94 and 113: whether attempt number n may be followed by another
MayRetryTwice(n) == n < 2
MayRetryFour(n) == n < 4
MayRetry(n) == n < MaxTries

\* lines 146-167: the case of the match statement a status body falls in
ShapeAnyError(check) ==
    IF check.status = {"success"} /\ Has(check, "context") /\ Has(check, "input")
    THEN "context"
    ELSE IF /\ check.status = {"success"} /\ Has(check, "options")
            /\ Has(check, "input") /\ Has(check, "analysis")
    THEN "analysis"
    ELSE IF check.status = {"processing"} THEN "processing"
    ELSE IF Has(check, "error") THEN "failed"
    ELSE "unknown"
ShapeNoFailed(check) ==
    IF check.status = {"success"} /\ Has(check, "context") /\ Has(check, "input")
    THEN "context"
    ELSE IF /\ check.status = {"success"} /\ Has(check, "options")
            /\ Has(check, "input") /\ Has(check, "analysis")
    THEN "analysis"
    ELSE IF check.status = {"processing"} THEN "processing"
    ELSE "unknown"
Shape(check) ==
    IF check.status = {"success"} /\ Has(check, "context") /\ Has(check, "input")
    THEN "context"
    ELSE IF /\ check.status = {"success"} /\ Has(check, "options")
            /\ Has(check, "input") /\ Has(check, "analysis")
    THEN "analysis"
    ELSE IF check.status = {"processing"} THEN "processing"
    ELSE IF check.status = {"failed"} /\ Has(check, "error") THEN "failed"
    ELSE "unknown"

\* line 148: {**data, "input": _input}
NormalizeContextKeep(data, _input) == MergeWrong(data, [input |-> _input])
NormalizeContext(data, _input) == Merge(data, [input |-> _input])

\* line 155: {**analysis, "options": options, "input": _input}
NormalizeAnalysisKeep(analysis, options, _input) ==
    MergeWrong(analysis, [options |-> options, input |-> _input])
NormalizeAnalysis(analysis, options, _input) ==
    Merge(analysis, [options |-> options, input |-> _input])

\* line 144: the guard of the polling loop
LoopGuardStrict(r, mr, t, c) == r < mr /\ t < c
LoopGuardNoTime(r, mr, t, c) == r <= mr
LoopGuard(r, mr, t, c) == r <= mr /\ t < c

\* lines 158, 163, 167: retries += 1
NextRetriesSame(r) == r
NextRetriesTwo(r) == r + 2
NextRetries(r) == r + 1

----------------------------------------------------------------------------
(* Outcomes of submit_and_wait_resource *)

NoOutcome == [type |-> "none", err |-> "", value |-> EmptyMap, retries |-> 0, last |-> "",
              at |-> 0]
Returned(m) == [NoOutcome EXCEPT !.type = "result", !.value = m]
Raised(e) == [NoOutcome EXCEPT !.type = "error", !.err = e]
\* line 168
TimedOut(r, e, t) == [NoOutcome EXCEPT !.type = "error", !.err = "Timeout",
                                       !.retries = r, !.last = e, !.at = t]

\* cooperative scheduling: a task runs from one await to the next without interleaving
AwaitPoints == {"off", "idle", "submit_wait", "submit_backoff", "check_wait",
                "check_backoff", "sleep", "done"}
CanRun(t) == \A u \in TaskIds \ {t} : pc[u] \in AwaitPoints

----------------------------------------------------------------------------
(* The client's operations *)

TaskInit ==
    /\ kind = [t \in TaskIds |-> ""]
    /\ max_retries = [t \in TaskIds |-> 0]
    /\ max_time = [t \in TaskIds |-> 0]
    /\ check_interval = [t \in TaskIds |-> 0]
    /\ tries = [t \in TaskIds |-> 0]
    /\ resource_id = [t \in TaskIds |-> ""]
    /\ retries = [t \in TaskIds |-> 0]
    /\ error = [t \in TaskIds |-> ""]
    /\ cutoff = [t \in TaskIds |-> 0]
    /\ wake = [t \in TaskIds |-> 0]
    /\ outcome = [t \in TaskIds |-> NoOutcome]
    /\ reqs = [t \in TaskIds |-> <<>>]
    /\ sent = [t \in TaskIds |-> 0]
    /\ checks = [t \in TaskIds |-> 0]

\* the module is imported: blackbird_api is about to be constructed and one tool call can
\* come, against the real status endpoint or against the always-processing stub
Init ==
    /\ now = 0
    /\ env = PasswordEnv
    /\ client = "unconstructed"
    /\ auth = ""
    /\ token = NoToken
    /\ exchanges = 0
    /\ pc = [t \in TaskIds |-> IF t = 1 THEN "idle" ELSE "off"]
    /\ stub \in [TaskIds -> {{}, AlwaysProcessing}]
    /\ stub[2] = {}
    /\ TaskInit

\* time is counted from the construction of the client and passes while every task is at
\* an await and some call is still to come or running; past MaxClock only as far as a
\* pending asyncio.sleep needs
Tick ==
    /\ client = "ready"
    /\ \A t \in TaskIds : pc[t] \in AwaitPoints
    /\ \E t \in TaskIds : pc[t] \notin {"off", "done"}
    /\ now < MaxClock \/ \E t \in TaskIds : pc[t] = "sleep" /\ now < wake[t]
    /\ now' = now + 1
    /\ UNCHANGED <<env, client, auth, token, exchanges, pc, params, tries, locals,
                   outcome, hist, stub>>

\* lines 130-138, called by check_context (194) and check_vision (201)
Invoke(t) ==
    /\ pc[t] = "idle" /\ client = "ready" /\ CanRun(t)
    /\ kind' = [kind EXCEPT ![t] = KindOf(t)]
    /\ \E mr \in 0..MaxRetriesArg, mt \in 0..MaxTimeArg, ci \in 0..MaxIntervalArg :
         /\ max_retries' = [max_retries EXCEPT ![t] = mr]
         /\ max_time' = [max_time EXCEPT ![t] = mt]
         /\ check_interval' = [check_interval EXCEPT ![t] = ci]
    /\ pc' = [pc EXCEPT ![t] = "submit"]
    /\ tries' = [tries EXCEPT ![t] = 1]
    /\ UNCHANGED <<shared, locals, outcome, hist, stub>>

\* lines 96-103: one attempt of _submit_resource_type builds its headers and posts
SubmitSend(t) ==
    /\ pc[t] = "submit" /\ CanRun(t)
    /\ \E r \in ExchangeAnswers :
         /\ Headers(r)
         /\ IF HeadersOk(r)
            THEN /\ pc' = [pc EXCEPT ![t] = "submit_wait"]
                 /\ sent' = [sent EXCEPT ![t] = @ + 1]
                 /\ outcome' = outcome
            ELSE /\ pc' = [pc EXCEPT ![t] = "done"]
                 /\ sent' = sent
                 /\ outcome' = [outcome EXCEPT ![t] = Raised("AuthError")]
    /\ UNCHANGED <<params, tries, locals, reqs, checks, stub>>

\* lines 104-111 under the decorator of line 94, then lines 139-143 when the id is returned
SubmitRecv(t) ==
    /\ pc[t] = "submit_wait" /\ CanRun(t)
    /\ \E resp \in SubmitResponses(t) :
         LET cls == SubmitClassify(resp.code)
             again == cls = "retryable" /\ MayRetry(tries[t])
             got == cls = "ok" /\ Has(resp, "id")
         IN  /\ reqs' = [reqs EXCEPT ![t] = Append(@, resp.code)]
             /\ pc' = [pc EXCEPT ![t] = IF got THEN "loop"
                                        ELSE IF again THEN "submit_backoff" ELSE "done"]
             /\ outcome' = [outcome EXCEPT ![t] =
                              IF got \/ again THEN @
                              ELSE IF cls = "ok" THEN Raised("KeyError")
                              ELSE IF cls = "retryable" THEN Raised("RetryableError")
                              ELSE Raised("SubmitError")]
             /\ resource_id' = [resource_id EXCEPT ![t] = IF got THEN Get(resp, "id") ELSE @]
             /\ retries' = [retries EXCEPT ![t] = IF got THEN 0 ELSE @]
             /\ error' = [error EXCEPT ![t] = IF got THEN "" ELSE @]
             /\ cutoff' = [cutoff EXCEPT ![t] = IF got THEN now + max_time[t] ELSE @]
    /\ UNCHANGED <<shared, params, tries, wake, sent, checks, stub>>

\* the decorator's backoff wait is over: the next attempt of the submission begins
SubmitRetry(t) ==
    /\ pc[t] = "submit_backoff" /\ CanRun(t)
    /\ pc' = [pc EXCEPT ![t] = "submit"]
    /\ tries' = [tries EXCEPT ![t] = @ + 1]
    /\ UNCHANGED <<shared, params, locals, outcome, hist, stub>>

\* line 144, then line 145 (a status check begins) or line 168
LoopTest(t) ==
    /\ pc[t] = "loop" /\ CanRun(t)
    /\ IF LoopGuard(retries[t], max_retries[t], now, cutoff[t])
       THEN /\ pc' = [pc EXCEPT ![t] = "check"]
            /\ tries' = [tries EXCEPT ![t] = 1]
            /\ reqs' = [reqs EXCEPT ![t] = <<>>]
            /\ sent' = [sent EXCEPT ![t] = 0]
            /\ checks' = [checks EXCEPT ![t] = @ + 1]
            /\ outcome' = outcome
       ELSE /\ pc' = [pc EXCEPT ![t] = "done"]
            /\ outcome' = [outcome EXCEPT ![t] = TimedOut(retries[t], error[t], now)]
            /\ UNCHANGED <<tries, reqs, sent, checks>>
    /\ UNCHANGED <<shared, params, locals, stub>>

\* lines 115-118: one attempt of _check_resource_type builds its headers and gets
CheckSend(t) ==
    /\ pc[t] = "check" /\ CanRun(t)
    /\ \E r \in ExchangeAnswers :
         /\ Headers(r)
         /\ IF HeadersOk(r)
            THEN /\ pc' = [pc EXCEPT ![t] = "check_wait"]
                 /\ sent' = [sent EXCEPT ![t] = @ + 1]
                 /\ outcome' = outcome
            ELSE /\ pc' = [pc EXCEPT ![t] = "done"]
                 /\ sent' = sent
                 /\ outcome' = [outcome EXCEPT ![t] = Raised("AuthError")]
    /\ UNCHANGED <<params, tries, locals, reqs, checks, stub>>

\* lines 119-128 under the decorator of line 113, then the match of lines 146-167; the
\* history of the decorated call ends when it returns a body
CheckRecv(t) ==
    /\ pc[t] = "check_wait" /\ CanRun(t)
    /\ \E resp \in CheckResponses(t) :
         LET cls == CheckClassify(resp.code)
             check == resp.body
             shape == IF cls = "ok" THEN Shape(check) ELSE ""
             again == cls = "retryable" /\ MayRetry(tries[t])
             wait == shape \in {"processing", "failed", "unknown"}
         IN  /\ reqs' = [reqs EXCEPT ![t] = IF wait THEN <<>> ELSE Append(@, resp.code)]
             /\ sent' = [sent EXCEPT ![t] = IF wait THEN 0 ELSE @]
             /\ pc' = [pc EXCEPT ![t] = IF wait THEN "sleep"
                                        ELSE IF again THEN "check_backoff" ELSE "done"]
             /\ outcome' = [outcome EXCEPT ![t] =
                              IF wait \/ again THEN @
                              ELSE IF shape = "context"
                              THEN Returned(NormalizeContext(Get(check, "context"),
                                                             Get(check, "input")))
                              ELSE IF shape = "analysis"
                              THEN Returned(NormalizeAnalysis(Get(check, "analysis"),
                                                              Get(check, "options"),
                                                              Get(check, "input")))
                              ELSE IF cls = "retryable" THEN Raised("RetryableError")
                              ELSE IF cls = "not_found" THEN Raised("NotFound")
                              ELSE Raised("CheckError")]
             /\ error' = [error EXCEPT ![t] = IF shape = "failed" THEN Get(check, "error")
                                              ELSE @]
             /\ wake' = [wake EXCEPT ![t] = IF wait THEN now + check_interval[t] ELSE @]
    /\ UNCHANGED <<shared, params, tries, resource_id, retries, cutoff, checks, stub>>

\* the decorator's backoff wait is over: the next attempt of the status check begins
CheckRetry(t) ==
    /\ pc[t] = "check_backoff" /\ CanRun(t)
    /\ pc' = [pc EXCEPT ![t] = "check"]
    /\ tries' = [tries EXCEPT ![t] = @ + 1]
    /\ UNCHANGED <<shared, params, locals, outcome, hist, stub>>

\* lines 157-158, 162-163, 166-167: asyncio.sleep(check_interval) is over, retries += 1
WakeUp(t) ==
    /\ pc[t] = "sleep" /\ now >= wake[t] /\ CanRun(t)
    /\ retries' = [retries EXCEPT ![t] = NextRetries(@)]
    /\ pc' = [pc EXCEPT ![t] = "loop"]
    /\ UNCHANGED <<shared, params, tries, resource_id, error, cutoff, wake, outcome, hist,
                   stub>>

\* the steps of a running call
Step(t) ==
    \/ SubmitSend(t)
    \/ SubmitRecv(t)
    \/ SubmitRetry(t)
    \/ LoopTest(t)
    \/ CheckSend(t)
    \/ CheckRecv(t)
    \/ CheckRetry(t)
    \/ WakeUp(t)

Next ==
    \/ Construct
    \/ Tick
    \/ \E t \in TaskIds : Invoke(t)
    \/ \E t \in TaskIds : Step(t)

Spec == Init /\ [][Next]_vars

\* every request is answered, every wait ends, and the clock runs
FairSpec == Spec /\ WF_vars(Tick) /\ \A t \in TaskIds : WF_vars(Step(t))

\* a status answer is about to be matched: task 1 awaits the answer to its first status
\* check, and the endpoint is a stub that answers 200 or 202 with one body of AllBodies
NormInit ==
    /\ now = 0
    /\ env = PasswordEnv
    /\ client = "ready"
    /\ auth = "password"
    /\ token = [token |-> 1, expiration_time |-> 2]
    /\ exchanges = 1
    /\ pc = [t \in TaskIds |-> IF t = 1 THEN "check_wait" ELSE "off"]
    /\ stub \in [TaskIds -> {{}} \cup {{[code |-> c, body |-> b]} :
                                          c \in Success2xx, b \in AllBodies}]
    /\ stub[1] # {} /\ stub[2] = {}
    /\ kind = [t \in TaskIds |-> IF t = 1 THEN KindOf(t) ELSE ""]
    /\ max_retries = [t \in TaskIds |-> 0]
    /\ max_time = [t \in TaskIds |-> IF t = 1 THEN MaxTimeArg ELSE 0]
    /\ check_interval \in [TaskIds -> 0..MaxIntervalArg]
    /\ check_interval[2] = 0
    /\ tries = [t \in TaskIds |-> IF t = 1 THEN 1 ELSE 0]
    /\ resource_id = [t \in TaskIds |-> IF t = 1 THEN IdOf(t) ELSE ""]
    /\ retries = [t \in TaskIds |-> 0]
    /\ error = [t \in TaskIds |-> ""]
    /\ cutoff = [t \in TaskIds |-> IF t = 1 THEN MaxTimeArg ELSE 0]
    /\ wake = [t \in TaskIds |-> 0]
    /\ outcome = [t \in TaskIds |-> NoOutcome]
    /\ reqs = [t \in TaskIds |-> <<>>]
    /\ sent = [t \in TaskIds |-> IF t = 1 THEN 1 ELSE 0]
    /\ checks = [t \in TaskIds |-> IF t = 1 THEN 1 ELSE 0]

NormNext == \E t \in TaskIds : CheckRecv(t)

NormSpec == NormInit /\ [][NormNext]_vars

----------------------------------------------------------------------------
(* Notions the claims use *)

Last(s) == s[Len(s)]
Running(t) == pc[t] \notin {"off", "idle"}
\* reqs and sent describe the submission until the first status check begins
InSubmit(t) == Running(t) /\ checks[t] = 0
InCheck(t) == Running(t) /\ checks[t] > 0
Failed(t, e) == pc[t] = "done" /\ outcome[t] = Raised(e)
\* the validity window of a token: the time is at least 0.5 s before its expiry
InWindow(tok, t) == tok.expiration_time - t >= Buffer
\* a step in which task t evaluates bearer_token (through headers)
BearerCall(t) == pc[t] \in {"submit", "check"} /\ pc'[t] # pc[t]
\* a step in which task t sends a request to a resource endpoint
SendsRequest(t) == BearerCall(t) /\ pc'[t] \in {"submit_wait", "check_wait"}

\* C1: whenever bearer_token returns and a request is sent, the token the request
\* carries expires at least 0.5 s after the moment of the call.
C1_TokenValidity ==
    [][\A t \in TaskIds :
         SendsRequest(t) => token'.expiration_time - now' >= Buffer]_vars

\* C3: a submission makes at most 3 requests and repeats one only after a 500; it returns
\* the id of the first 200/202 answer right after that answer (k earlier 500s: k+1
\* requests), and after three 500s it fails with RetryableError having made 3 requests.
C3_SubmitRetry ==
    \A t \in TaskIds : InSubmit(t) =>
        LET n == Len(reqs[t]) IN
        /\ sent[t] <= 3 /\ n <= sent[t]
        /\ \A i \in 1..(n - 1) : reqs[t][i] = 500
        /\ (n > 0 /\ Last(reqs[t]) \in Success2xx /\ outcome[t].err # "KeyError") =>
              /\ pc[t] = "loop" \/ (pc[t] = "done" /\ outcome[t].err = "Timeout")
              /\ resource_id[t] = IdOf(t)
              /\ sent[t] = n
        /\ pc[t] = "loop" => n > 0 /\ Last(reqs[t]) \in Success2xx
        /\ reqs[t] = <<500, 500, 500>> => Failed(t, "RetryableError") /\ sent[t] = 3
        /\ outcome[t].err = "RetryableError" => reqs[t] = <<500, 500, 500>>
        /\ (n > 0 /\ n < 3 /\ Last(reqs[t]) = 500) =>
              pc[t] \in {"submit_backoff", "submit", "submit_wait"}
              \/ Failed(t, "AuthError")

C3_Witness ==
    /\ pc[1] = "loop" /\ checks[1] = 0
    /\ reqs[1] = <<500, 500, 200>> /\ sent[1] = 3 /\ resource_id[1] = "r1"

\* C4: a submission answered with a status other than 200, 202 and 500 fails at once with
\* the non-retryable error, as first answer (exactly 1 request) or after earlier 500s,
\* and no further request of that submission follows.
C4_SubmitNoRetry ==
    \A t \in TaskIds : InSubmit(t) =>
        LET n == Len(reqs[t]) IN
        /\ (n > 0 /\ Last(reqs[t]) \notin Success2xx \cup {500}) =>
              /\ Failed(t, "SubmitError")
              /\ sent[t] = n
              /\ \A i \in 1..(n - 1) : reqs[t][i] = 500
        /\ outcome[t].err = "SubmitError" =>
              n > 0 /\ Last(reqs[t]) \notin Success2xx \cup {500}

C4_Witness ==
    /\ Failed(1, "SubmitError") /\ checks[1] = 0
    /\ reqs[1] = <<404>> /\ sent[1] = 1

\* the status body a stubbed endpoint answers
StubBody(t) == (CHOOSE r \in stub[t] : TRUE).body

\* C2: with the submission returned, every status check answered "processing" and the time
\* budget left, max_retries = N gives exactly N+1 status checks and then the timeout error
\* reporting retries = N+1; an (N+2)-th status check never begins.
C2_OrchestratorBound ==
    \A t \in TaskIds :
        /\ checks[t] <= max_retries[t] + 1
        /\ (stub[t] = AlwaysProcessing /\ pc[t] = "done" /\ outcome[t].err = "Timeout"
            /\ outcome[t].at < cutoff[t]) =>
              /\ checks[t] = max_retries[t] + 1
              /\ outcome[t].retries = max_retries[t] + 1
        /\ (stub[t] = AlwaysProcessing /\ InCheck(t) /\ pc[t] = "done") =>
              outcome[t].err \in {"Timeout", "AuthError"}

C2_Witness ==
    /\ stub[1] = AlwaysProcessing /\ max_retries[1] = 2 /\ check_interval[1] = 0
    /\ pc[1] = "done" /\ outcome[1].err = "Timeout" /\ outcome[1].at < cutoff[1]
    /\ checks[1] = 3 /\ outcome[1].retries = 3

Answered(t) == stub[t] # {} /\ pc[t] # "check_wait"

\* C5: a status body with status "success", a `context` mapping and an `input` makes the
\* call return, at that status check, exactly the context's bindings plus `input` bound
\* to the body's input, also when the context binds `input` itself and when the body
\* carries `options` and `analysis` too.
C5_ContextShape ==
    \A t \in TaskIds :
        (/\ Answered(t)
         /\ StubBody(t).status = {"success"}
         /\ Has(StubBody(t), "context") /\ Has(StubBody(t), "input")) =>
            LET ctx == Get(StubBody(t), "context")
                res == outcome[t].value
            IN  /\ pc[t] = "done" /\ outcome[t].type = "result"
                /\ DOMAIN res = DOMAIN ctx \cup {"input"}
                /\ res["input"] = Get(StubBody(t), "input")
                /\ \A k \in DOMAIN ctx \ {"input"} : res[k] = ctx[k]

C5_Witness ==
    /\ pc[1] = "done" /\ stub[1] # {}
    /\ StubBody(1).status = {"success"}
    /\ StubBody(1).context = {[verdict |-> "x", input |-> "x"]}
    /\ StubBody(1).input = {"a"}
    /\ Has(StubBody(1), "options") /\ Has(StubBody(1), "analysis")
    /\ outcome[1] = Returned([verdict |-> "x", input |-> "a"])

\* C6: a status body with status "success", `options`, `input` and `analysis` and no
\* `context` makes the call return, at that status check, the analysis' bindings plus
\* `options` and `input` bound to the body's own values, also when the analysis binds
\* `options` or `input` itself.
C6_AnalysisShape ==
    \A t \in TaskIds :
        (/\ Answered(t)
         /\ StubBody(t).status = {"success"}
         /\ ~Has(StubBody(t), "context")
         /\ Has(StubBody(t), "options") /\ Has(StubBody(t), "input")
         /\ Has(StubBody(t), "analysis")) =>
            LET an == Get(StubBody(t), "analysis")
                res == outcome[t].value
            IN  /\ pc[t] = "done" /\ outcome[t].type = "result"
                /\ DOMAIN res = DOMAIN an \cup {"options", "input"}
                /\ res["options"] = Get(StubBody(t), "options")
                /\ res["input"] = Get(StubBody(t), "input")
                /\ \A k \in DOMAIN an \ {"options", "input"} : res[k] = an[k]

C6_Witness ==
    /\ pc[1] = "done" /\ stub[1] # {}
    /\ StubBody(1).status = {"success"} /\ ~Has(StubBody(1), "context")
    /\ StubBody(1).analysis = {[fake |-> "x", options |-> "x", input |-> "x"]}
    /\ outcome[1] = Returned([fake |-> "x", options |-> "o", input |-> "a"])

\* C7: construction makes exactly one credential exchange; a bearer_token call inside the
\* validity window returns the cached value, makes no exchange and leaves the cache as it
\* is; a call that finds the token expired (the time is past its expiry) makes one
\* exchange, so that the exchanges number 1 plus the calls that found the token expired.
C7_Idempotence ==
    [][/\ (client = "unconstructed" /\ client' = "ready") => exchanges' = 1
       /\ \A t \in TaskIds : BearerCall(t) =>
            /\ InWindow(token, now) => token' = token /\ exchanges' = exchanges
            /\ now > token.expiration_time => exchanges' = exchanges + 1]_vars

\* a failure answer: neither 200 nor 202
FailureCode(c) == c \notin Success2xx
Is5xx(c) == c >= 500 /\ c <= 599

\* C9 as stated: every 5xx answer of either endpoint is retried, and surfaces only as
\* RetryableError after 3 attempts; every other failure answer ends the call at once.
C9_Every5xxRetried ==
    \A t \in TaskIds : (Running(t) /\ Len(reqs[t]) > 0) =>
        /\ (Is5xx(Last(reqs[t])) /\ pc[t] = "done" /\ outcome[t].err # "AuthError") =>
              outcome[t].err = "RetryableError" /\ Len(reqs[t]) = 3
        /\ (FailureCode(Last(reqs[t])) /\ ~Is5xx(Last(reqs[t]))) =>
              pc[t] = "done" /\ sent[t] = Len(reqs[t])

\* C9 amended: of the failure answers of either endpoint only status 500 is retried, up to
\* 3 attempts in all, and then surfaces as RetryableError; every other failure answer,
\* the other 5xx statuses included, ends the call at once and is never retried.
C9_Only500Retried ==
    \A t \in TaskIds : (Running(t) /\ Len(reqs[t]) > 0) =>
        LET n == Len(reqs[t])
            c == Last(reqs[t])
        IN  /\ \A i \in 1..(n - 1) : reqs[t][i] = 500
            /\ n <= MaxTries /\ sent[t] <= MaxTries
            /\ (c = 500 /\ n < MaxTries) =>
                  \/ pc[t] \in {"submit_backoff", "submit", "submit_wait",
                                "check_backoff", "check", "check_wait"}
                  \/ Failed(t, "AuthError")
            /\ (c = 500 /\ n = MaxTries) => Failed(t, "RetryableError") /\ sent[t] = n
            /\ outcome[t].err = "RetryableError" => c = 500 /\ n = MaxTries
            /\ (FailureCode(c) /\ c # 500) =>
                  /\ pc[t] = "done" /\ sent[t] = n
                  /\ outcome[t].type = "error"
                  /\ outcome[t].err \in {"SubmitError", "NotFound", "CheckError"}

C9_Witness ==
    /\ InCheck(1) /\ reqs[1] = <<503>> /\ sent[1] = 1
    /\ Failed(1, "CheckError")

Is4xx(c) == c >= 400 /\ c < 500

\* C10: a status check answered with a 4xx status fails with the non-retryable error
\* without another request (after exactly 1 request when it is the first answer), and
\* the call ends there with that error: no wait, no retry counted, no further status
\* check, no timeout error. The same holds when a status check ends in RetryableError
\* after three 500 answers.
C10_CheckFailureEndsCall ==
    \A t \in TaskIds : (InCheck(t) /\ Len(reqs[t]) > 0) =>
        LET n == Len(reqs[t])
            c == Last(reqs[t])
        IN  /\ Is4xx(c) =>
                  /\ Failed(t, "NotFound")
                  /\ sent[t] = n
                  /\ \A i \in 1..(n - 1) : reqs[t][i] = 500
                  /\ retries[t] = checks[t] - 1
                  /\ pc[t] # "sleep"
            /\ reqs[t] = <<500, 500, 500>> =>
                  /\ Failed(t, "RetryableError")
                  /\ sent[t] = 3
                  /\ retries[t] = checks[t] - 1
            /\ outcome[t].err \in {"NotFound", "RetryableError"} =>
                  Is4xx(c) \/ reqs[t] = <<500, 500, 500>>

C10_Witness ==
    /\ Failed(1, "NotFound") /\ reqs[1] = <<404>> /\ sent[1] = 1
    /\ checks[1] = 2 /\ retries[1] = 1

\* C8: every call whose requests are all answered ends, with a normalized result or with
\* one terminal error, whatever the answers, check_interval and the clock are; it begins
\* at most max_retries+1 status checks, and no decorated call sends more than 3 requests.
C8_Termination ==
    /\ \A t \in TaskIds : Running(t) ~> pc[t] = "done"
    /\ [](\A t \in TaskIds :
            /\ checks[t] <= max_retries[t] + 1
            /\ sent[t] <= 3
            /\ pc[t] = "done" <=> outcome[t].type \in {"result", "error"}
            /\ pc[t] # "done" <=> outcome[t] = NoOutcome)

C8_Witness ==
    /\ pc[1] = "done" /\ stub[1] = {} /\ check_interval[1] = 0
    /\ outcome[1].err = "Timeout" /\ outcome[1].last = "e2"
    /\ max_retries[1] = 2 /\ checks[1] = 3

----------------------------------------------------------------------------
(* Construction under every configuration of the environment *)

\* lines 174-184: the four variables are read with "" as default and passed to __init__
ConfigInit ==
    /\ now = 0
    /\ env \in CredInputs
    /\ client = "unconstructed"
    /\ auth = ""
    /\ token = NoToken
    /\ exchanges = 0
    /\ pc = [t \in TaskIds |-> IF t = 1 THEN "idle" ELSE "off"]
    /\ stub = [t \in TaskIds |-> {}]
    /\ TaskInit

\* the client is constructed, then a tool call evaluates headers as time passes
ConfigNext ==
    \/ Construct
    \/ Tick
    \/ \E t \in TaskIds : Invoke(t)
    \/ \E t \in TaskIds : SubmitSend(t)

ConfigSpec == ConfigInit /\ [][ConfigNext]_vars

UserPair(c) == c.username # "" /\ c.password # ""
ClientPair(c) == c.client_id # "" /\ c.client_secret # ""
ExactlyOnePair(c) == UserPair(c) # ClientPair(c)
Constructed == client # "unconstructed"

\* C11: construction passes the configuration check if and only if exactly one of the two
\* credential pairs is populated; in every other case it fails with the configuration
\* error and no credential exchange is made. Where it passes, the grant used for every
\* exchange, then and later, is that of the single populated pair.
C11_CredentialMode ==
    Constructed =>
        /\ client = "config_error" <=> ~ExactlyOnePair(env)
        /\ ~ExactlyOnePair(env) => exchanges = 0
        /\ client # "config_error" =>
              auth = (IF UserPair(env) THEN "password" ELSE "client_credentials")

----------------------------------------------------------------------------
(* The polling loop against a stubbed status endpoint *)

\* the status bodies by the keys they bind: Shape looks at no value but that of `status`
PollBodies ==
    {b \in AllBodies : /\ b.context \subseteq {FullMap(CtxKeys)}
                       /\ b.analysis \subseteq {FullMap(AnKeys)}}

FailedBody(e) == [NoBody EXCEPT !.status = {"failed"}, !.error = {e}]
ContextBody == [NoBody EXCEPT !.status = {"success"}, !.context = {FullMap(CtxKeys)},
                              !.input = {"a"}]

\* a stub whose answers are "failed" with error e1 or the finished context check
FailedOrSuccess == {[code |-> 200, body |-> FailedBody("e1")],
                    [code |-> 200, body |-> ContextBody]}

PollStubs ==
    {{[code |-> c, body |-> b]} : c \in Success2xx, b \in PollBodies}
    \cup {FailedOrSuccess}

\* lines 141-145: task 1 awaits the answer to a status check, the first of the call or the
\* second, after a first one that was answered "processing" or "failed" with error e2
PollInit ==
    /\ now = 0
    /\ env = PasswordEnv
    /\ client = "ready"
    /\ auth = "password"
    /\ token = [token |-> 1, expiration_time |-> 2]
    /\ exchanges = 1
    /\ pc = [t \in TaskIds |-> IF t = 1 THEN "check_wait" ELSE "off"]
    /\ stub \in [TaskIds -> {{}} \cup PollStubs]
    /\ stub[1] # {} /\ stub[2] = {}
    /\ kind = [t \in TaskIds |-> IF t = 1 THEN KindOf(t) ELSE ""]
    /\ max_retries = [t \in TaskIds |-> IF t = 1 THEN MaxRetriesArg ELSE 0]
    /\ max_time = [t \in TaskIds |-> IF t = 1 THEN MaxTimeArg ELSE 0]
    /\ check_interval \in [TaskIds -> 0..MaxIntervalArg]
    /\ check_interval[2] = 0
    /\ tries = [t \in TaskIds |-> IF t = 1 THEN 1 ELSE 0]
    /\ resource_id = [t \in TaskIds |-> IF t = 1 THEN IdOf(t) ELSE ""]
    /\ retries \in [TaskIds -> 0..1]
    /\ retries[2] = 0
    /\ error \in [TaskIds -> {"", "e2"}]
    /\ error[2] = ""
    /\ retries[1] = 0 => error[1] = ""
    /\ retries[1] = 1 => check_interval[1] = 0
    /\ cutoff = [t \in TaskIds |-> IF t = 1 THEN MaxTimeArg ELSE 0]
    /\ wake = [t \in TaskIds |-> 0]
    /\ outcome = [t \in TaskIds |-> NoOutcome]
    /\ reqs = [t \in TaskIds |-> <<>>]
    /\ sent = [t \in TaskIds |-> IF t = 1 THEN 1 ELSE 0]
    /\ checks = [t \in TaskIds |-> IF t = 1 THEN retries[t] + 1 ELSE 0]

PollNext ==
    \/ Tick
    \/ \E t \in TaskIds : LoopTest(t)
    \/ \E t \in TaskIds : CheckSend(t)
    \/ \E t \in TaskIds : CheckRecv(t)
    \/ \E t \in TaskIds : WakeUp(t)

PollSpec == PollInit /\ [][PollNext]_vars

\* the four shapes of a status body, as the claims word them
IsContextSuccess(b) == b.status = {"success"} /\ Has(b, "context") /\ Has(b, "input")
IsAnalysisSuccess(b) ==
    b.status = {"success"} /\ Has(b, "options") /\ Has(b, "analysis") /\ Has(b, "input")
IsProcessing(b) == b.status = {"processing"}
IsFailed(b) == b.status = {"failed"} /\ Has(b, "error")
IsSuccess(b) == IsContextSuccess(b) \/ IsAnalysisSuccess(b)
IsUnrecognized(b) == ~IsSuccess(b) /\ ~IsProcessing(b) /\ ~IsFailed(b)

\* the bodies a stubbed endpoint answers task t with
StubBodies(t) == {r.body : r \in stub[t]}
\* a step in which task t matches the body of a status answer
Handled(t) == pc[t] = "check_wait" /\ pc'[t] # "check_wait"

\* C12: a "failed" status answer with error e never ends the call: the call records e as
\* its last error, waits check_interval, counts one retry and tests the loop again, so a
\* later success answer is still returned; "processing" and unrecognized answers leave the
\* last error as it is, and the timeout error carries the error of the most recent "failed"
\* answer.
C12_FailedIsTransient ==
    /\ [][\A t \in TaskIds :
            /\ (Handled(t) /\ pc'[t] = "sleep"
                /\ \A b \in StubBodies(t) : IsFailed(b) \/ IsSuccess(b)) =>
                  /\ error'[t] \in {Get(b, "error") : b \in {c \in StubBodies(t) : IsFailed(c)}}
                  /\ wake'[t] = now + check_interval[t]
                  /\ retries'[t] = retries[t]
                  /\ outcome'[t] = NoOutcome
            /\ (Handled(t) /\ \E b \in StubBodies(t) : IsFailed(b)) =>
                  \/ pc'[t] = "sleep"
                  \/ /\ pc'[t] = "done" /\ outcome'[t].type = "result"
                     /\ \E b \in StubBodies(t) : IsSuccess(b)
            /\ (Handled(t) /\ \A b \in StubBodies(t) : ~IsFailed(b)) => error'[t] = error[t]
            /\ ~Handled(t) => error'[t] = error[t]
            /\ (pc[t] = "sleep" /\ pc'[t] # "sleep") =>
                  /\ pc'[t] = "loop" /\ now >= wake[t]
                  /\ retries'[t] = retries[t] + 1
            /\ (pc[t] = "loop" /\ pc'[t] # "loop") =>
                  \/ pc'[t] = "check" /\ checks'[t] = checks[t] + 1
                  \/ pc'[t] = "done" /\ outcome'[t] = TimedOut(retries[t], error[t], now)]_vars
    /\ [](\A t \in TaskIds : pc[t] = "done" =>
            /\ outcome[t].err \in {"", "Timeout", "AuthError"}
            /\ (outcome[t].err = "Timeout" /\ \E b \in StubBodies(t) : IsFailed(b)) =>
                  outcome[t].last \in {Get(b, "error") : b \in
                                         {c \in StubBodies(t) : IsFailed(c)}})

\* a "failed" answer, a wait and a counted retry, then the result of the finished check
C12_Witness ==
    /\ stub[1] = FailedOrSuccess /\ pc[1] = "done"
    /\ outcome[1] = Returned([verdict |-> "x", input |-> "a"])
    /\ error[1] = "e1" /\ retries[1] = 2 /\ checks[1] = 3

SubmitPcs == {"submit", "submit_wait", "submit_backoff"}

\* C13: a call begins its one submission when it is invoked and before any status check;
\* only the decorator's retry after a 500 repeats the request, 3 attempts at most. A
\* submission that fails (non-retryable answer, no id, or three 500s) ends the call with
\* that error and no status check made, and once status checks have begun the call never
\* submits again.
C13_SingleSubmission ==
    /\ [][\A t \in TaskIds :
            /\ (pc'[t] \in SubmitPcs /\ pc[t] \notin SubmitPcs) =>
                  pc[t] = "idle" /\ pc'[t] = "submit" /\ checks[t] = 0
            /\ (pc'[t] = "submit" /\ pc[t] \in SubmitPcs \ {"submit"}) =>
                  /\ pc[t] = "submit_backoff" /\ Last(reqs[t]) = 500
                  /\ tries'[t] <= MaxTries
            /\ checks'[t] > checks[t] =>
                  /\ pc[t] = "loop" /\ resource_id[t] = IdOf(t)
                  /\ checks[t] = 0 => reqs[t] # <<>> /\ Last(reqs[t]) \in Success2xx
            /\ pc[t] = "done" => pc'[t] = "done" /\ checks'[t] = checks[t]]_vars
    /\ [](\A t \in TaskIds :
            /\ pc[t] \in SubmitPcs => checks[t] = 0 /\ sent[t] <= MaxTries
            /\ outcome[t].err \in {"SubmitError", "KeyError"} => checks[t] = 0
            /\ (checks[t] = 0 /\ reqs[t] # <<>> /\ FailureCode(Last(reqs[t]))
                /\ (Last(reqs[t]) # 500 \/ Len(reqs[t]) = MaxTries)) =>
                  /\ pc[t] = "done" /\ outcome[t].type = "error"
                  /\ outcome[t].err = (IF Last(reqs[t]) = 500 THEN "RetryableError"
                                       ELSE "SubmitError")
                  /\ sent[t] = Len(reqs[t]))

\* the submission gave up after three 500 answers and no status check was made
C13_Witness ==
    /\ Failed(1, "RetryableError") /\ checks[1] = 0
    /\ reqs[1] = <<500, 500, 500>> /\ sent[1] = 3 /\ resource_id[1] = ""

\* C14: cutoff is set once, when the submission returns, to the time of that moment plus
\* max_time; a status check begins only in a state with retries <= max_retries and
\* now < cutoff, and a loop test made at or after the cutoff ends the call with the timeout
\* error and no further status check. With max_time = 0 the call makes no status check and
\* reports retries = 0, however long the submission took.
C14_TimeBudget ==
    /\ [][\A t \in TaskIds :
            /\ (pc[t] = "submit_wait" /\ pc'[t] = "loop") =>
                  cutoff'[t] = now + max_time[t] /\ retries'[t] = 0
            /\ ~(pc[t] = "submit_wait" /\ pc'[t] = "loop") => cutoff'[t] = cutoff[t]
            /\ checks'[t] > checks[t] =>
                  /\ pc[t] = "loop" /\ pc'[t] = "check"
                  /\ retries[t] <= max_retries[t] /\ now < cutoff[t]
            /\ (pc[t] = "loop" /\ pc'[t] # "loop" /\ now >= cutoff[t]) =>
                  /\ pc'[t] = "done" /\ checks'[t] = checks[t]
                  /\ outcome'[t] = TimedOut(retries[t], error[t], now)]_vars
    /\ [](\A t \in TaskIds : (Running(t) /\ max_time[t] = 0) =>
            /\ checks[t] = 0
            /\ (pc[t] = "done" /\ resource_id[t] # "") =>
                  outcome[t] = TimedOut(0, "", outcome[t].at))

\* no time budget: the submission, retried once, returned at 1.0 s and the call timed out
\* there without a status check
C14_Witness ==
    /\ max_time[1] = 0 /\ pc[1] = "done" /\ reqs[1] = <<500, 200>>
    /\ resource_id[1] = "r1" /\ cutoff[1] = 2 /\ checks[1] = 0
    /\ outcome[1] = TimedOut(0, "", 2)

\* the stubbed endpoint answers task t with unrecognized bodies only
UnrecognizedStub(t) == stub[t] # {} /\ \A b \in StubBodies(t) : IsUnrecognized(b)

\* C15: a 200/202 status body that is none of the four shapes (a "success" without `input`,
\* or with neither `context` nor `options` and `analysis`; a "failed" without `error`; any
\* other or no status) is never returned as a result: the call keeps its last error, waits
\* check_interval and counts one retry.
C15_Unrecognized ==
    /\ [][\A t \in TaskIds : UnrecognizedStub(t) =>
            /\ Handled(t) =>
                  /\ pc'[t] = "sleep" /\ outcome'[t] = NoOutcome
                  /\ error'[t] = error[t]
                  /\ wake'[t] = now + check_interval[t]
                  /\ retries'[t] = retries[t]
            /\ (pc[t] = "sleep" /\ pc'[t] # "sleep") =>
                  /\ pc'[t] = "loop" /\ now >= wake[t]
                  /\ retries'[t] = retries[t] + 1
            /\ pc[t] # "sleep" => retries'[t] = retries[t]]_vars
    /\ [](\A t \in TaskIds : UnrecognizedStub(t) =>
            /\ outcome[t].type # "result"
            /\ pc[t] = "done" => outcome[t].err \in {"Timeout", "AuthError"}
            /\ retries[t] = IF pc[t] \in {"loop", "done"} /\ outcome[t].err # "AuthError"
                            THEN checks[t] ELSE checks[t] - 1)

\* three status checks answered "success" with a context and no input: three retries
\* counted, no error recorded, and the timeout error
C15_Witness ==
    /\ stub[1] = {[code |-> 200, body |-> [NoBody EXCEPT !.status = {"success"},
                                              !.context = {FullMap(CtxKeys)}]]}
    /\ pc[1] = "done" /\ checks[1] = 3
    /\ outcome[1] = TimedOut(3, "", 0)

----------------------------------------------------------------------------
(* Two concurrent tool calls *)

\* lines 187-202: check_context and check_vision have both been called, on one event loop
\* and against the client constructed at time 0, and each awaits the answer to its
\* submission; the tools pass no max_retries, max_time or check_interval, so both calls
\* run with the same values
AnalysisBody == [NoBody EXCEPT !.status = {"success"}, !.analysis = {FullMap(AnKeys)},
                               !.options = {"o"}, !.input = {"a"}]

\* the status endpoint of each kind, stubbed: the context check is processing, ready or
\* answered 500; the vision analysis has failed, is ready or is not found
DuoStub(t) ==
    IF t = 1
    THEN {[code |-> 200, body |-> Processing], [code |-> 200, body |-> ContextBody],
          [code |-> 500, body |-> NoBody]}
    ELSE {[code |-> 200, body |-> FailedBody("e2")], [code |-> 202, body |-> AnalysisBody],
          [code |-> 404, body |-> NoBody]}

DuoInit ==
    /\ now = 0
    /\ env = PasswordEnv
    /\ client = "ready"
    /\ auth = "password"
    /\ token \in {NewToken(r, 1, 0) : r \in {a \in AuthResponses : NewTokenOk(a)}}
    /\ exchanges = 1
    /\ pc = [t \in TaskIds |-> "submit_wait"]
    /\ stub = [t \in TaskIds |-> DuoStub(t)]
    /\ kind = [t \in TaskIds |-> KindOf(t)]
    /\ max_retries = [t \in TaskIds |-> 1]
    /\ max_time = [t \in TaskIds |-> MaxTimeArg]
    /\ check_interval = [t \in TaskIds |-> 0]
    /\ tries = [t \in TaskIds |-> 1]
    /\ resource_id = [t \in TaskIds |-> ""]
    /\ retries = [t \in TaskIds |-> 0]
    /\ error = [t \in TaskIds |-> ""]
    /\ cutoff = [t \in TaskIds |-> 0]
    /\ wake = [t \in TaskIds |-> 0]
    /\ outcome = [t \in TaskIds |-> NoOutcome]
    /\ reqs = [t \in TaskIds |-> <<>>]
    /\ sent = [t \in TaskIds |-> 1]
    /\ checks = [t \in TaskIds |-> 0]

DuoNext ==
    \/ Tick
    \/ \E t \in TaskIds : Step(t)

DuoSpec == DuoInit /\ [][DuoNext]_vars

\* the longest validity the token endpoint grants
MaxExpiresIn == CHOOSE e \in ExpiresIn : \A f \in ExpiresIn : f <= e

\* both tasks have evaluated bearer_token at the present time, for the first status check
\* that follows at once the answer to their submission, and the token cached before was
\* expired then: the token in the cache was issued at the present time
BothCalledNow ==
    /\ \A t \in TaskIds : /\ pc[t] = "check_wait" /\ checks[t] = 1 /\ tries[t] = 1
                          /\ cutoff[t] = now + max_time[t]
    /\ token.token > 1 /\ token.expiration_time = now + MaxExpiresIn

C17_TokenOwnership ==
    [][/\ token' # token =>
            /\ \/ client = "unconstructed" /\ client' = "ready"
               \/ \E t \in TaskIds : BearerCall(t) /\ NeedsRefresh(token, now)
            /\ exchanges' = exchanges + 1
            /\ token'.token = exchanges'
            /\ token'.expiration_time - now' \in ExpiresIn
       /\ \A t \in TaskIds :
            (pc'[t] # pc[t] /\ pc[t] \notin {"submit", "check"} /\ Constructed) =>
                token' = token /\ exchanges' = exchanges]_vars

\* the token was replaced while the call was polling: the status request carries the token
\* of the second exchange, valid for 1 s from now
C17_Witness ==
    /\ pc[1] = "check_wait" /\ retries[1] = 1
    /\ exchanges = 2 /\ token = [token |-> 2, expiration_time |-> now + 2]

\* a step in which task t evaluates bearer_token and the refresh it triggers fails
RefreshFails(t) == BearerCall(t) /\ exchanges' # exchanges /\ token' = token

\* C18: every attempt of the submission and of a status check, the retries after a 500
\* included, gets its header from bearer_token, which makes an exchange exactly when it
\* finds the token expired; when that exchange fails the call ends at once with the auth
\* error: no request is sent in that attempt, no retry, wait or further status check
\* follows, and the cached token stays as it was.
C18_AuthFailure ==
    /\ [][\A t \in TaskIds :
            /\ sent'[t] > sent[t] => BearerCall(t) /\ sent'[t] = sent[t] + 1
            /\ BearerCall(t) =>
                  /\ exchanges' = exchanges + 1 <=> NeedsRefresh(token, now)
                  /\ exchanges' = exchanges <=> ~NeedsRefresh(token, now)
                  /\ RefreshFails(t) =>
                        /\ pc'[t] = "done" /\ outcome'[t] = Raised("AuthError")
                        /\ sent'[t] = sent[t] /\ tries'[t] = tries[t]
                        /\ retries'[t] = retries[t] /\ checks'[t] = checks[t]
                  /\ ~RefreshFails(t) =>
                        /\ pc'[t] = (IF pc[t] = "submit" THEN "submit_wait" ELSE "check_wait")
                        /\ sent'[t] = sent[t] + 1
                        /\ outcome'[t] = NoOutcome
            /\ pc[t] = "done" =>
                  /\ pc'[t] = "done" /\ outcome'[t] = outcome[t]
                  /\ sent'[t] = sent[t] /\ tries'[t] = tries[t] /\ checks'[t] = checks[t]]_vars
    /\ [](\A t \in TaskIds : outcome[t].err = "AuthError" =>
            pc[t] = "done" /\ outcome[t] = Raised("AuthError") /\ sent[t] < MaxTries)

\* the second attempt of a status check, after a 500, found the token expired and its
\* refresh failed: one request was sent by this check, none by the second attempt
C18_Witness ==
    /\ Failed(1, "AuthError") /\ InCheck(1)
    /\ tries[1] = 2 /\ reqs[1] = <<500>> /\ sent[1] = 1
    /\ exchanges = 2 /\ token.token = 1

\* the variables of task u that are private to its call
Private(u) == <<pc[u], kind[u], max_retries[u], max_time[u], check_interval[u], tries[u],
                resource_id[u], retries[u], error[u], cutoff[u], wake[u], outcome[u],
                reqs[u], sent[u], checks[u]>>

\* C19: whatever the interleaving of two concurrent calls at their awaits, a step of one
\* task changes nothing of the other task's retries, last error, resource id, kind,
\* position or outcome, and of the shared state nothing but the cached token; each task's
\* status checks address its own kind and the id its own submission returned, and each
\* task ends as it would alone on the answers it got: the context check never carries the
\* other call's error, each result is the normalized answer of the task's own endpoint,
\* and a timeout reports the task's own count of status checks.
C19_Independence ==
    /\ [][\A t \in TaskIds : pc'[t] # pc[t] =>
            /\ \A u \in TaskIds \ {t} : Private(u)' = Private(u)
            /\ UNCHANGED <<now, env, client, auth, stub>>]_vars
    /\ [](/\ kind[1] = "compass/contextChecks" /\ kind[2] = "compass/visionAnalyses"
          /\ resource_id[1] \in {"", "r1"} /\ resource_id[2] \in {"", "r2"}
          /\ \A t \in TaskIds : InCheck(t) => resource_id[t] # ""
          /\ error[1] = "" /\ error[2] \in {"", "e2"}
          /\ outcome[1].type = "result" =>
                outcome[1] = Returned([verdict |-> "x", input |-> "a"])
          /\ outcome[2].type = "result" =>
                outcome[2] = Returned([fake |-> "x", options |-> "o", input |-> "a"])
          /\ outcome[1].err \in {"", "Timeout", "AuthError", "SubmitError", "KeyError",
                                 "RetryableError"}
          /\ outcome[2].err \in {"", "Timeout", "AuthError", "SubmitError", "KeyError",
                                 "RetryableError", "NotFound"}
          /\ \A t \in TaskIds : outcome[t].err = "Timeout" =>
                /\ outcome[t].retries = checks[t] /\ outcome[t].last = error[t]
                /\ outcome[t].retries = retries[t]
                /\ retries[t] > max_retries[t] \/ outcome[t].at >= cutoff[t])

\* the context check timed out after two status checks answered "processing"; the vision
\* analysis, run concurrently, failed once with e2 and then returned its result
C19_Witness ==
    /\ pc = [t \in TaskIds |-> "done"]
    /\ outcome[1].err = "Timeout" /\ outcome[1].retries = 2 /\ outcome[1].last = ""
    /\ outcome[2] = Returned([fake |-> "x", options |-> "o", input |-> "a"])
    /\ retries[2] = 1 /\ error[2] = "e2"
    /\ resource_id = [t \in TaskIds |-> IF t = 1 THEN "r1" ELSE "r2"]

CheckPcs == {"check", "check_wait", "check_backoff"}

\* the number of status checks of task t's call that have completed with a non-success
\* classification: all those begun, but for one in progress or one that ended the call
\* with a result or with its own error
NonSuccessChecks(t) ==
    IF pc[t] \in CheckPcs \/ (pc[t] = "done" /\ checks[t] > 0 /\ outcome[t].err # "Timeout")
    THEN checks[t] - 1
    ELSE checks[t]

\* C20 as stated: in every reachable state of a call, retries equals the number of its
\* status checks that have completed with a non-success classification.
C20_RetriesCountChecks ==
    \A t \in TaskIds : Running(t) => retries[t] = NonSuccessChecks(t)

\* C20 amended: retries equals the number of status checks completed with a non-success
\* classification whose wait of check_interval is over too (during that wait the check
\* just classified is not counted yet); it never decreases and never exceeds
\* max_retries+1, and the retries reported by the timeout error equals the number of status
\* checks performed, also when the loop ended at the time cutoff.
C20_RetriesInvariant ==
    /\ [](\A t \in TaskIds : Running(t) =>
            /\ retries[t] = NonSuccessChecks(t) - (IF pc[t] = "sleep" THEN 1 ELSE 0)
            /\ retries[t] <= max_retries[t] + 1
            /\ outcome[t].err = "Timeout" =>
                  /\ outcome[t].retries = checks[t]
                  /\ outcome[t].retries = retries[t]
                  /\ retries[t] > max_retries[t] \/ outcome[t].at >= cutoff[t])
    /\ [][\A t \in TaskIds : Running(t) => retries'[t] >= retries[t]]_vars

\* the loop ended at the time cutoff, not at max_retries: one status check was made and
\* the timeout error reports retries = 1
C20_Witness ==
    /\ pc[1] = "done" /\ outcome[1].err = "Timeout" /\ stub[1] = {}
    /\ max_retries[1] = 2 /\ checks[1] = 1 /\ outcome[1].retries = 1
    /\ outcome[1].at >= cutoff[1] /\ max_time[1] = 1

====
